---- MODULE Spec2Model ----
(***************************************************************************)
(* A model of pylal's ligolw_sicluster.py: the canonical merge policy      *)
(* SnglInspiralCluster, the clustering engine ClusterSnglInspiralTable     *)
(* (one action per branch of its loops) and the library entry point        *)
(* ligolw_sicluster (threshold pre-filter, clustering, sort by snr).       *)
(*                                                                         *)
(* A trigger is a record [id, time, snr]: id stands for the payload of a   *)
(* row (its position in the input table), time for get_end(), snr for the  *)
(* score.  Python indices are kept 0-based: triggers[i] is At(triggers,i). *)
(***************************************************************************)
EXTENDS Integers, Sequences, FiniteSets, TLC

\* ---------------------------------------------------------------- bounds
MaxLen == 3
MaxTime == 2
MaxSnr == 1

Times == 0..MaxTime
Snrs == 1..MaxSnr
\* A window of MaxTime already clusters every pair of generic triggers.
Windows == 0..MaxTime
\* No threshold (0), every score, and one above every generic score.
Thresholds == 0..(MaxSnr + 1)

\* ---------------------------------------------------------------- inputs
MkRows(times, snrs) ==
  [k \in 1..Len(times) |-> [id |-> k, time |-> times[k], snr |-> snrs[k]]]

\* The two worked scenarios of the specification (window 10).
ScenarioA == [rows |-> MkRows(<<0, 1, 100>>, <<5, 9, 1>>), window |-> 10]
ScenarioB == [rows |-> MkRows(<<0, 5, 11>>, <<3, 7, 2>>), window |-> 10]
\* Four triggers that end as one with window 1 and as two with window 2.
ScenarioW == [rows |-> MkRows(<<1, 3, 0, 2>>, <<2, 3, 1, 2>>), window |-> 1]

Scenarios == {ScenarioA, ScenarioB, ScenarioW}

BailoutFuncs == {"None", "TimeGap"}

\* Every bailoutfunc a caller may pass, the ones that do not agree with
\* testfunc included.
AnyBailoutFuncs == BailoutFuncs \cup {"EndTime", "WideGap"}

\* --------------------------------------------------------------- helpers
At(s, k) == s[k + 1]

ReplaceAt_none(s, k, x) == s

ReplaceAt(s, k, x) == [s EXCEPT ![k + 1] = x]

\* del s[k]
RemoveAt_last(s, k) == SubSeq(s, 1, Len(s) - 1)

RemoveAt(s, k) == SubSeq(s, 1, k) \o SubSeq(s, k + 2, Len(s))

Abs(x) == IF x < 0 THEN -x ELSE x

Cmp(x, y) == IF x < y THEN -1 ELSE IF x > y THEN 1 ELSE 0

Reverse(s) == [k \in 1..Len(s) |-> s[Len(s) + 1 - k]]

\* ------------------------------------------------- caller-supplied policy
\* testfunc: 0 when a and b are to be clustered (not more than twindow
\* apart), otherwise their order in time.
testfunc(a, b, twindow) ==
  IF Abs(a.time - b.time) <= twindow THEN 0 ELSE Cmp(a.time, b.time)

\* testfunc as the comparison function of list.sort: called with two
\* arguments, so with no window; it orders the triggers by time.
testfunc2(a, b) == testfunc(a, b, 0)

\* bailoutfunc "TimeGap": b is more than the window after a.
\* bailoutfunc "EndTime": a comparison of the end times alone, true (not 0)
\* whenever the times differ, also within the window.
\* bailoutfunc "WideGap": b is more than the window and one more after a,
\* so it is false for some of the pairs testfunc finds distinct.
bailoutfunc_true(name, a, b, twindow) ==
  \/ name = "TimeGap" /\ b.time - a.time > twindow
  \/ name = "EndTime" /\ Cmp(a.time, b.time) # 0
  \/ name = "WideGap" /\ b.time - a.time > twindow + 1

\* SnglInspiralUtils.CompareSnglInspiralBySnr
CompareSnglInspiralBySnr(a, b) == Cmp(a.snr, b.snr)

\* The comparison function handed to list.sort, by its name in the source.
Compare(cmp, a, b) ==
  IF cmp = "testfunc" THEN testfunc2(a, b) ELSE CompareSnglInspiralBySnr(a, b)

\* list.sort(cmp) is stable: the element at position k of s lands after
\* every element that compares smaller and every equal element before it.
SortBy(cmp, s) ==
  LET rank(k) == 1 + Cardinality({m \in 1..Len(s) :
                       \/ Compare(cmp, s[m], s[k]) < 0
                       \/ Compare(cmp, s[m], s[k]) = 0 /\ m < k})
  IN  [r \in 1..Len(s) |-> s[CHOOSE k \in 1..Len(s) : rank(k) = r]]

\* ------------------------------------------- SnglInspiralCluster (94-101)
SnglInspiralCluster_strict(a, b) == IF b.snr > a.snr THEN b ELSE a

SnglInspiralCluster_first(a, b) == a

SnglInspiralCluster_lower(a, b) == IF b.snr >= a.snr THEN a ELSE b

SnglInspiralCluster(a, b) == IF b.snr >= a.snr THEN b ELSE a

\* --------------------------------------- ClusterSnglInspiralTable frames
\* The frame of one call: its arguments, its locals, the line it is at
\* (pc), and counters of the passes started and merges done so far.
NoLast == [op |-> "none"]

Call(rows, window, bailoutfunc) ==
  [triggers |-> rows, twindow |-> window, bailoutfunc |-> bailoutfunc,
   i |-> 0, j |-> 0, did_cluster |-> FALSE, pc |-> "pass",
   passes |-> 0, merges |-> 0, last |-> NoLast]

StartPass_nosort(e) ==
  [e EXCEPT !.did_cluster = FALSE, !.i = 0, !.passes = @ + 1,
            !.pc = "outer"]

\* lines 115-121: a pass starts
StartPass(e) ==
  [e EXCEPT !.did_cluster = FALSE,
            !.triggers = IF e.bailoutfunc # "None"
                         THEN SortBy("testfunc", @) ELSE @,
            !.i = 0,
            !.passes = @ + 1,
            !.pc = "outer"]

\* lines 122-123: while i < len(triggers): j = i + 1
OuterHolds(e) == e.pc = "outer" /\ e.i < Len(e.triggers)

EnterInner_same(e) == [e EXCEPT !.j = e.i, !.pc = "inner"]

EnterInner(e) == [e EXCEPT !.j = e.i + 1, !.pc = "inner"]

\* line 122 false: the pass is over
EndScan(e) == [e EXCEPT !.pc = "check"]

\* line 124: while j < len(triggers)
InnerHolds(e) == e.pc = "inner" /\ e.j < Len(e.triggers)

ShouldCluster_inverted(e) ==
  testfunc(At(e.triggers, e.i), At(e.triggers, e.j), e.twindow) # 0

\* line 125: if not testfunc(triggers[i], triggers[j], twindow)
ShouldCluster(e) ==
  testfunc(At(e.triggers, e.i), At(e.triggers, e.j), e.twindow) = 0

\* lines 130-131: if bailoutfunc: if bailoutfunc(triggers[i], triggers[j])
ShouldBail(e) ==
  /\ e.bailoutfunc # "None"
  /\ bailoutfunc_true(e.bailoutfunc, At(e.triggers, e.i),
                      At(e.triggers, e.j), e.twindow)

ClusterPair_noflag(e) ==
  LET a == At(e.triggers, e.i)
      b == At(e.triggers, e.j)
      c == SnglInspiralCluster(a, b)
  IN  [e EXCEPT !.triggers = RemoveAt(ReplaceAt(@, e.i, c), e.j),
                !.merges = @ + 1,
                !.last = [op |-> "merge", a |-> a, b |-> b, c |-> c,
                          i |-> e.i, j |-> e.j]]

ClusterPair_skip(e) ==
  LET a == At(e.triggers, e.i)
      b == At(e.triggers, e.j)
      c == SnglInspiralCluster(a, b)
  IN  [e EXCEPT !.triggers = RemoveAt(ReplaceAt(@, e.i, c), e.j),
                !.did_cluster = TRUE,
                !.j = @ + 1,
                !.merges = @ + 1,
                !.last = [op |-> "merge", a |-> a, b |-> b, c |-> c,
                          i |-> e.i, j |-> e.j]]

\* lines 126-128: merge into triggers[i], delete triggers[j]
ClusterPair(e) ==
  LET a == At(e.triggers, e.i)
      b == At(e.triggers, e.j)
      c == SnglInspiralCluster(a, b)
  IN  [e EXCEPT !.triggers = RemoveAt(ReplaceAt(@, e.i, c), e.j),
                !.did_cluster = TRUE,
                !.merges = @ + 1,
                !.last = [op |-> "merge", a |-> a, b |-> b, c |-> c,
                          i |-> e.i, j |-> e.j]]

BreakInner_return(e) ==
  [e EXCEPT !.pc = "check",
            !.last = [op |-> "bail", i |-> e.i, j |-> e.j]]

\* line 132 then 134: break, i += 1
BreakInner(e) ==
  [e EXCEPT !.i = @ + 1, !.pc = "outer",
            !.last = [op |-> "bail", i |-> e.i, j |-> e.j]]

\* line 133: j += 1
NextJ(e) ==
  [e EXCEPT !.j = @ + 1,
            !.last = [op |-> "advance", i |-> e.i, j |-> e.j]]

NextI_stuck(e) == [e EXCEPT !.pc = "outer"]

\* line 124 false, then 134: i += 1
NextI(e) == [e EXCEPT !.i = @ + 1, !.pc = "outer"]

Finished_first(e) == TRUE

\* lines 136-137: if not did_cluster: return
Finished(e) == ~e.did_cluster

Return(e) == [e EXCEPT !.pc = "return"]

\* line 115: while True
Repeat(e) == [e EXCEPT !.pc = "pass"]

\* One step of the call, whichever branch applies.
Step(e) ==
  CASE e.pc = "pass" -> StartPass(e)
    [] e.pc = "outer" -> IF OuterHolds(e) THEN EnterInner(e) ELSE EndScan(e)
    [] e.pc = "inner" ->
         IF ~InnerHolds(e) THEN NextI(e)
         ELSE IF ShouldCluster(e) THEN ClusterPair(e)
         ELSE IF ShouldBail(e) THEN BreakInner(e)
         ELSE NextJ(e)
    [] e.pc = "check" -> IF Finished(e) THEN Return(e) ELSE Repeat(e)
    [] OTHER -> e

\* The whole call: the frame in which it returns.
RECURSIVE RunFrom(_)
RunFrom(e) == IF e.pc = "return" THEN e ELSE RunFrom(Step(e))

ClusterSnglInspiralTable(rows, window, bailoutfunc) ==
  RunFrom(Call(rows, window, bailoutfunc))

\* ------------------------------------------------------------------ state
VARIABLES
  frame,   \* the frame of the current (or last) call of the engine
  input,   \* the list as it was when the first call was entered
  call,    \* calls of the engine entered so far (0, 1 or 2)
  first,   \* the list as the first call left it (<<>> until then)
  kwargs   \* keyword arguments of ligolw_sicluster

vars == <<frame, input, call, first, kwargs>>

\* The arguments and locals of the call, by their names in the source.
triggers == frame.triggers
twindow == frame.twindow
bailoutfunc == frame.bailoutfunc
i == frame.i
j == frame.j
did_cluster == frame.did_cluster
pc == frame.pc
passes == frame.passes
merges == frame.merges
last == frame.last

\* The keyword arguments when the engine is called directly.
NoKwargs ==
  [snr_threshold |-> 0, verbose |-> FALSE, sort_ascending_snr |-> FALSE,
   sort_descending_snr |-> FALSE, cluster_window |-> 0,
   bailoutfunc |-> "None"]

\* The module is loaded; nothing has been called yet.
Init ==
  /\ frame = [Call(<<>>, 0, "None") EXCEPT !.pc = "idle"]
  /\ input = <<>>
  /\ call = 0
  /\ first = <<>>
  /\ kwargs = NoKwargs

Caller == <<input, call, first, kwargs>>

\* The caller appends one more trigger to the list it is going to pass,
\* as long as the list is shorter than MaxLen.
AddRow ==
  /\ pc = "idle"
  /\ Len(triggers) < MaxLen
  /\ \E t \in Times, s \in Snrs :
       frame' = [frame EXCEPT !.triggers =
                   Append(@, [id |-> Len(@) + 1, time |-> t, snr |-> s])]
  /\ UNCHANGED Caller

\* The caller takes the list of one of the scenarios instead.
TakeScenario ==
  /\ pc = "idle"
  /\ triggers = <<>>
  /\ \E c \in Scenarios :
       frame' = [frame EXCEPT !.triggers = c.rows, !.twindow = c.window,
                              !.pc = "scenario"]
  /\ UNCHANGED Caller

\* The window the caller passes: any of Windows with a list it has built,
\* the window of the scenario with the list of a scenario.
CallWindows == IF pc = "scenario" THEN {twindow} ELSE Windows

\* The caller enters ClusterSnglInspiralTable(triggers, testfunc,
\* SnglInspiralCluster, window, bailoutfunc).
Enter ==
  /\ pc \in {"idle", "scenario"}
  /\ \E w \in CallWindows, b \in BailoutFuncs :
       frame' = Call(triggers, w, b)
  /\ input' = triggers
  /\ call' = 1
  /\ UNCHANGED <<first, kwargs>>

\* ------------------------------- actions of ClusterSnglInspiralTable
PassStart ==
  /\ pc = "pass"
  /\ frame' = StartPass(frame)
  /\ UNCHANGED Caller

OuterEnter ==
  /\ OuterHolds(frame)
  /\ frame' = EnterInner(frame)
  /\ UNCHANGED Caller

OuterExit ==
  /\ pc = "outer"
  /\ ~OuterHolds(frame)
  /\ frame' = EndScan(frame)
  /\ UNCHANGED Caller

Cluster ==
  /\ InnerHolds(frame)
  /\ ShouldCluster(frame)
  /\ frame' = ClusterPair(frame)
  /\ UNCHANGED Caller

Bailout ==
  /\ InnerHolds(frame)
  /\ ~ShouldCluster(frame)
  /\ ShouldBail(frame)
  /\ frame' = BreakInner(frame)
  /\ UNCHANGED Caller

Advance ==
  /\ InnerHolds(frame)
  /\ ~ShouldCluster(frame)
  /\ ~ShouldBail(frame)
  /\ frame' = NextJ(frame)
  /\ UNCHANGED Caller

InnerExit ==
  /\ pc = "inner"
  /\ ~InnerHolds(frame)
  /\ frame' = NextI(frame)
  /\ UNCHANGED Caller

PassAgain ==
  /\ pc = "check"
  /\ ~Finished(frame)
  /\ frame' = Repeat(frame)
  /\ UNCHANGED Caller

Returns ==
  /\ pc = "check"
  /\ Finished(frame)
  /\ frame' = Return(frame)
  /\ UNCHANGED Caller

\* The caller runs the engine a second time, on the list the first call
\* left, with the same window and policy functions.
Recluster ==
  /\ pc = "return"
  /\ call = 1
  /\ frame' = Call(triggers, twindow, bailoutfunc)
  /\ first' = triggers
  /\ call' = 2
  /\ UNCHANGED <<input, kwargs>>

Next ==
  \/ AddRow
  \/ TakeScenario
  \/ Enter
  \/ PassStart
  \/ OuterEnter
  \/ OuterExit
  \/ Cluster
  \/ Bailout
  \/ Advance
  \/ InnerExit
  \/ PassAgain
  \/ Returns
  \/ Recluster

Spec == Init /\ [][Next]_vars

\* The caller enters the engine with any bailoutfunc, not only one that
\* agrees with testfunc.
EnterAny ==
  /\ pc \in {"idle", "scenario"}
  /\ \E w \in CallWindows, b \in AnyBailoutFuncs :
       frame' = Call(triggers, w, b)
  /\ input' = triggers
  /\ call' = 1
  /\ UNCHANGED <<first, kwargs>>

NextAny ==
  \/ AddRow
  \/ TakeScenario
  \/ EnterAny
  \/ PassStart
  \/ OuterEnter
  \/ OuterExit
  \/ Cluster
  \/ Bailout
  \/ Advance
  \/ InnerExit
  \/ PassAgain
  \/ Returns
  \/ Recluster

SpecAny == Init /\ [][NextAny]_vars

\* The code runs every step it reaches: no step is postponed for ever.
FairSpec == Spec /\ WF_vars(Next)

\* ------------------------------------------------ ligolw_sicluster (148-184)
\* line 162: `del trigger` unbinds the loop variable; the list keeps the row.
DelName(rows, k) == rows

\* lines 160-162: for trigger in rows: if trigger.snr < threshold: del trigger
RECURSIVE DiscardLoop(_, _, _)
DiscardLoop(rows, k, threshold) ==
  IF k > Len(rows) THEN rows
  ELSE DiscardLoop(IF rows[k].snr < threshold THEN DelName(rows, k) ELSE rows,
                   k + 1, threshold)

\* lines 155-162: the loop is inside `if kwargs["verbose"]`
Discard(rows, kw) ==
  IF kw.snr_threshold > 0
  THEN IF kw.verbose THEN DiscardLoop(rows, 1, kw.snr_threshold) ELSE rows
  ELSE rows

SortBySnr_noreverse(rows, kw) ==
  IF kw.sort_ascending_snr \/ kw.sort_descending_snr
  THEN SortBy("CompareSnglInspiralBySnr", rows)
  ELSE rows

\* lines 171-177
SortBySnr(rows, kw) ==
  IF kw.sort_ascending_snr \/ kw.sort_descending_snr
  THEN IF kw.sort_descending_snr
       THEN Reverse(SortBy("CompareSnglInspiralBySnr", rows))
       ELSE SortBy("CompareSnglInspiralBySnr", rows)
  ELSE rows

\* ligolw_sicluster(doc, **kwargs) is called on a document whose
\* sngl_inspiral table holds the list the caller has built.
EnterSicluster ==
  /\ pc \in {"idle", "scenario"}
  /\ \E w \in CallWindows, b \in BailoutFuncs, t \in Thresholds,
        v \in BOOLEAN, up \in BOOLEAN, down \in BOOLEAN :
       kwargs' = [snr_threshold |-> t, verbose |-> v,
                  sort_ascending_snr |-> up, sort_descending_snr |-> down,
                  cluster_window |-> w, bailoutfunc |-> b]
  /\ frame' = [frame EXCEPT !.pc = "prefilter", !.twindow = 0]
  /\ input' = triggers
  /\ UNCHANGED <<call, first>>

\* lines 155-162
Prefilter ==
  /\ pc = "prefilter"
  /\ frame' = [frame EXCEPT !.triggers = Discard(@, kwargs),
                             !.pc = "cluster"]
  /\ UNCHANGED <<input, call, first, kwargs>>

\* lines 164-169: the call of the engine, from entry to return
ClusterRows ==
  /\ pc = "cluster"
  /\ LET r == ClusterSnglInspiralTable(triggers, kwargs.cluster_window,
                                       kwargs.bailoutfunc)
     IN  /\ frame' = [r EXCEPT !.pc = "sort"]
         /\ first' = r.triggers
  /\ call' = 1
  /\ UNCHANGED <<input, kwargs>>

\* lines 171-177
PostSort ==
  /\ pc = "sort"
  /\ frame' = [frame EXCEPT !.triggers = SortBySnr(@, kwargs),
                             !.pc = "done"]
  /\ UNCHANGED <<input, call, first, kwargs>>

NextSicluster ==
  \/ AddRow
  \/ TakeScenario
  \/ EnterSicluster
  \/ Prefilter
  \/ ClusterRows
  \/ PostSort

SpecSicluster == Init /\ [][NextSicluster]_vars

\* ligolw_sicluster called with snr_threshold = 0: the pre-filter block at
\* lines 156-162 is skipped, the rest of the call is the same.
EnterNoThreshold ==
  /\ pc \in {"idle", "scenario"}
  /\ \E w \in CallWindows, b \in BailoutFuncs,
        v \in BOOLEAN, up \in BOOLEAN, down \in BOOLEAN :
       kwargs' = [snr_threshold |-> 0, verbose |-> v,
                  sort_ascending_snr |-> up, sort_descending_snr |-> down,
                  cluster_window |-> w, bailoutfunc |-> b]
  /\ frame' = [frame EXCEPT !.pc = "prefilter", !.twindow = 0]
  /\ input' = triggers
  /\ UNCHANGED <<call, first>>

NextNoThreshold ==
  \/ AddRow
  \/ TakeScenario
  \/ EnterNoThreshold
  \/ Prefilter
  \/ ClusterRows
  \/ PostSort

SpecNoThreshold == Init /\ [][NextNoThreshold]_vars

\* ================================================================ claims
Max(x, y) == IF x > y THEN x ELSE y

\* The length of the list when the current call was entered.
EntryLen == IF call = 1 THEN Len(input) ELSE Len(first)

Rows(s) == {s[k] : k \in DOMAIN s}

\* The multiset of the scores of a list: score |-> number of rows with it.
ScoreBag(s) ==
  [v \in {s[k].snr : k \in DOMAIN s} |->
     Cardinality({k \in DOMAIN s : s[k].snr = v})]

Reorderings(s) ==
  {[k \in DOMAIN s |-> s[p[k]]] : p \in Permutations(DOMAIN s)}

TimeSorted(s) == \A k \in 1..(Len(s) - 1) : s[k].time <= s[k + 1].time

Close(a, b, w) == testfunc(a, b, w) = 0

\* Within the window is transitive on s: the list falls into groups whose
\* members are all within w of each other and more than w from the rest.
Separated(s, w) ==
  \A a \in Rows(s), b \in Rows(s), c \in Rows(s) :
    Close(a, b, w) /\ Close(b, c, w) => Close(a, c, w)

\* The program is inside a call of the engine, or at its return.
InCall == pc \in {"pass", "outer", "inner", "check", "return"}

\* The first call has returned, no bailout predicate supplied.
ReturnedPlain == pc = "return" /\ call = 1 /\ bailoutfunc = "None"

\* The windows of the model that are at least w.
Wider(w) == (Windows \cup {c.window : c \in Scenarios}) \ 0..(w - 1)

Survivors(rows, w) == Len(ClusterSnglInspiralTable(rows, w, "None").triggers)

\* C1: every merge the engine performs yields b when b.snr >= a.snr and a
\* otherwise: with equal scores the second argument, and always one of the
\* two arguments, unchanged.
C1_MergeKeepsHigherTiesSecond ==
  last.op = "merge" =>
    /\ last.c = (IF last.b.snr >= last.a.snr THEN last.b ELSE last.a)
    /\ last.a.snr = last.b.snr => last.c = last.b
    /\ last.c \in {last.a, last.b}

C1_Witness ==
  /\ last.op = "merge"
  /\ last.a.snr = last.b.snr
  /\ last.a.time # last.b.time
  /\ last.c = last.b

\* C2: when the engine returns and no bailout predicate was supplied, every
\* pair of positions of the list is distinct under testfunc.
C2_FixedPointNoBailout ==
  (pc = "return" /\ bailoutfunc = "None") =>
    \A x \in DOMAIN triggers, y \in DOMAIN triggers :
      x < y => testfunc(triggers[x], triggers[y], twindow) # 0

C2_Witness ==
  /\ ReturnedPlain
  /\ passes >= 2
  /\ merges >= 1
  /\ Len(triggers) >= 2

\* C3: a second run on the list the first run left performs no merge and
\* leaves the list as it was, with or without a bailout predicate.
C3_SecondRunChangesNothing ==
  (pc = "return" /\ call = 2) => (merges = 0 /\ triggers = first)

C3_Witness ==
  /\ pc = "return"
  /\ call = 2
  /\ bailoutfunc = "TimeGap"
  /\ Len(first) < Len(input)
  /\ Len(first) >= 2

\* C4 as claimed: without bailout, every reordering of the input ends with
\* the same multiset of scores.
C4_OrderIndependent ==
  ReturnedPlain =>
    \A p \in Reorderings(input) :
      ScoreBag(ClusterSnglInspiralTable(p, twindow, "None").triggers)
        = ScoreBag(triggers)

\* C4 amended: without bailout, when the input falls into groups separated
\* by more than the window (within the window is transitive), every
\* reordering of the input ends with the same multiset of scores.
C4_OrderIndependentWhenSeparated ==
  (ReturnedPlain /\ Separated(input, twindow)) =>
    \A p \in Reorderings(input) :
      ScoreBag(ClusterSnglInspiralTable(p, twindow, "None").triggers)
        = ScoreBag(triggers)

C4_Witness ==
  /\ ReturnedPlain
  /\ Separated(input, twindow)
  /\ Len(input) = 3
  /\ Len(triggers) = 2
  /\ \E x \in Rows(input), y \in Rows(input) : x.snr # y.snr

\* C5: on a time-sorted input, the run with the bailout predicate "more
\* than the window later" ends with the same set of triggers as the run
\* without a bailout predicate.
C5_BailoutSameResult ==
  (pc = "return" /\ call = 1 /\ bailoutfunc = "TimeGap" /\ TimeSorted(input))
    => Rows(triggers)
         = Rows(ClusterSnglInspiralTable(input, twindow, "None").triggers)

C5_Witness ==
  /\ pc = "return"
  /\ call = 1
  /\ bailoutfunc = "TimeGap"
  /\ TimeSorted(input)
  /\ merges >= 1
  /\ last.op = "bail"

\* C6 as claimed: a wider window never leaves more triggers.
C6_WindowMonotone ==
  ReturnedPlain =>
    \A w \in Wider(twindow) : Survivors(input, w) <= Len(triggers)

\* C6 amended: a wider window never leaves more triggers, provided the
\* input falls into separated groups under the wider window.
C6_WindowMonotoneWhenSeparated ==
  ReturnedPlain =>
    \A w \in Wider(twindow) :
      Separated(input, w) => Survivors(input, w) <= Len(triggers)

C6_Witness ==
  /\ ReturnedPlain
  /\ merges >= 1
  /\ \E w \in Wider(twindow) :
       /\ w > twindow
       /\ Separated(input, w)
       /\ Survivors(input, w) < Len(triggers)

\* C7: scenario A ends with the trigger of score 9 at time 1, then the
\* trigger of score 1 at time 100.
C7_ScenarioA ==
  (ReturnedPlain /\ input = ScenarioA.rows /\ twindow = ScenarioA.window)
    => triggers = <<[id |-> 2, time |-> 1, snr |-> 9],
                    [id |-> 3, time |-> 100, snr |-> 1]>>

C7_Witness ==
  /\ ReturnedPlain
  /\ input = ScenarioA.rows
  /\ twindow = ScenarioA.window
  /\ merges = 1

\* C8: scenario B ends with the single trigger of score 7 at time 5,
\* although the triggers at times 0 and 11 are more than a window apart.
C8_ScenarioB ==
  (ReturnedPlain /\ input = ScenarioB.rows /\ twindow = ScenarioB.window)
    => /\ triggers = <<[id |-> 2, time |-> 5, snr |-> 7]>>
       /\ testfunc(input[1], input[3], twindow) # 0

C8_Witness ==
  /\ ReturnedPlain
  /\ input = ScenarioB.rows
  /\ twindow = ScenarioB.window
  /\ merges = 2

\* C9 as claimed: when the call returns it has done at most n-1 merges and
\* at most n passes, n the length of the list at entry.
C9_AtMostNPasses ==
  pc = "return" => (merges <= EntryLen - 1 /\ passes <= EntryLen)

\* C9 amended: every call returns; each merge shortens the list by one, so
\* there are at most n-1 merges and n passes for n >= 1, and no merge and
\* one pass for the empty list.
C9_ReturnsWithinBounds ==
  /\ [](InCall => /\ Len(triggers) = EntryLen - merges
                  /\ merges <= Max(EntryLen - 1, 0)
                  /\ passes <= Max(EntryLen, 1))
  /\ ((pc = "pass" /\ passes = 0) ~> (pc = "return"))

C9_Witness ==
  /\ pc = "return"
  /\ EntryLen = 3
  /\ merges = 2
  /\ passes = 3

\* C10: with snr_threshold > 0, when clustering begins the list holds no
\* trigger whose score is below the threshold.
C10_BelowThresholdDiscarded ==
  (pc = "cluster" /\ kwargs.snr_threshold > 0) =>
    \A k \in DOMAIN triggers : triggers[k].snr >= kwargs.snr_threshold

\* The position of row r in list s (rows of a list are distinct).
PosIn(s, r) == CHOOSE k \in DOMAIN s : s[k] = r

\* t is s sorted by time, ascending and stably.
IsStableTimeSort(s, t) ==
  /\ Len(t) = Len(s)
  /\ Rows(t) = Rows(s)
  /\ TimeSorted(t)
  /\ \A x \in DOMAIN t, y \in DOMAIN t :
       (x < y /\ t[x].time = t[y].time) => PosIn(s, t[x]) < PosIn(s, t[y])

\* C11: with a bailout predicate, the step that starts a pass leaves the
\* list sorted by time, ascending and stably, and every state of the scan
\* (outer and inner loop) has a time-sorted list; with no bailout predicate
\* the step that starts a pass leaves the list as it is.
C11_SortedBeforeEveryPass ==
  /\ [][pc = "pass" =>
          IF bailoutfunc # "None"
          THEN IsStableTimeSort(triggers, triggers')
          ELSE triggers' = triggers]_vars
  /\ []((pc \in {"outer", "inner"} /\ bailoutfunc # "None")
          => TimeSorted(triggers))

C11_Witness ==
  /\ pc = "outer"
  /\ i = 0
  /\ call = 1
  /\ bailoutfunc = "TimeGap"
  /\ passes = 1
  /\ ~TimeSorted(input)
  /\ triggers # input
  /\ TimeSorted(triggers)
  /\ \E x \in DOMAIN triggers, y \in DOMAIN triggers :
       x < y /\ triggers[x].time = triggers[y].time

NonDecreasingSnr(s) == \A k \in 1..(Len(s) - 1) : s[k].snr <= s[k + 1].snr

NonIncreasingSnr(s) == \A k \in 1..(Len(s) - 1) : s[k].snr >= s[k + 1].snr

\* C12: in ligolw_sicluster the list is still the clustered one when the
\* sort step is reached; when the call is done, sort_ascending_snr alone
\* gives non-decreasing scores, sort_descending_snr gives non-increasing
\* scores, the triggers are the same as after clustering, and with neither
\* flag their order is the clustered order.
C12_PostSort ==
  /\ pc = "sort" => triggers = first
  /\ pc = "done" =>
       /\ (kwargs.sort_ascending_snr /\ ~kwargs.sort_descending_snr)
            => NonDecreasingSnr(triggers)
       /\ kwargs.sort_descending_snr => NonIncreasingSnr(triggers)
       /\ Len(triggers) = Len(first)
       /\ Rows(triggers) = Rows(first)
       /\ (~kwargs.sort_ascending_snr /\ ~kwargs.sort_descending_snr)
            => triggers = first

C12_Witness ==
  /\ pc = "done"
  /\ kwargs.sort_ascending_snr
  /\ ~kwargs.sort_descending_snr
  /\ Len(first) = 2
  /\ first[1].snr > first[2].snr
  /\ triggers = <<first[2], first[1]>>

\* C13: with a bailout predicate supplied, no pair (triggers[i],
\* triggers[j]) for which the predicate is true is merged.
C13_BailoutPairsNeverMerged ==
  (last.op = "merge" /\ bailoutfunc # "None")
    => ~bailoutfunc_true(bailoutfunc, last.a, last.b, twindow)

\* The call under way is the first one, on scenario B, with no bailout.
InScenarioB ==
  /\ InCall
  /\ call = 1
  /\ bailoutfunc = "None"
  /\ input = ScenarioB.rows
  /\ twindow = ScenarioB.window

\* C14 as claimed: in scenario B the list at the end of the first pass is
\* not yet the single final trigger, a later pass being needed to merge.
C14_SecondPassMerges ==
  (InScenarioB /\ pc = "check" /\ passes = 1) => Len(triggers) > 1

\* C14 amended: in scenario B both merges happen in the first pass; at
\* the end of the first pass the list is already the single trigger of
\* score 7 at time 5, the second pass merges nothing, and the call returns
\* at the end of the second pass.
C14_ScenarioBConvergesInFirstPass ==
  InScenarioB =>
    /\ (passes >= 2 \/ pc \in {"check", "return"}) =>
         /\ merges = 2
         /\ triggers = <<[id |-> 2, time |-> 5, snr |-> 7]>>
    /\ (passes >= 2 /\ pc # "pass") => ~did_cluster
    /\ passes <= 2
    /\ pc = "return" => passes = 2

C14_Witness ==
  /\ InScenarioB
  /\ pc = "check"
  /\ passes = 2
  /\ merges = 2
  /\ ~did_cluster

\* The engine is executing (not yet returned, not outside a call).
Running == pc \in {"pass", "outer", "inner", "check"}

\* This step is a merge step of the engine.
MergeStep == pc = "inner" /\ merges' = merges + 1

\* C15: a merge step at (i, j) puts merge(old triggers[i], old
\* triggers[j]) at index i, removes exactly the element at index j (the
\* length drops by one, the elements before j other than i keep index and
\* content, the elements after j move down by one), and any other step of
\* the engine except the sort that starts a pass with a bailout predicate
\* leaves the list as it is.
C15_MergeStepEffect ==
  [][/\ MergeStep =>
          /\ Len(triggers') = Len(triggers) - 1
          /\ At(triggers', i)
               = SnglInspiralCluster(At(triggers, i), At(triggers, j))
          /\ \A k \in 0..(j - 1) :
               k # i => At(triggers', k) = At(triggers, k)
          /\ \A k \in (j + 1)..(Len(triggers) - 1) :
               At(triggers', k - 1) = At(triggers, k)
     /\ (Running /\ ~MergeStep /\ ~(pc = "pass" /\ bailoutfunc # "None"))
          => triggers' = triggers]_vars

C15_Witness ==
  /\ pc = "inner"
  /\ last.op = "merge"
  /\ last.i + 1 < last.j
  /\ last.j < Len(triggers)

\* C16: a merge step leaves i and j as they are, so the element that moved
\* into index j is the next one compared with the updated triggers[i];
\* with no bailout predicate j only moves on, by one, over a pair that was
\* tested and found distinct, a pair found to cluster is merged, and the
\* inner loop ends only when j has reached the end of the list.
C16_NoSkipAfterMerge ==
  [][/\ MergeStep =>
          /\ i' = i
          /\ j' = j
          /\ pc' = "inner"
          /\ j < Len(triggers') => At(triggers', j) = At(triggers, j + 1)
     /\ (pc = "inner" /\ bailoutfunc = "None" /\ j < Len(triggers)) =>
          IF testfunc(At(triggers, i), At(triggers, j), twindow) = 0
          THEN MergeStep
          ELSE i' = i /\ j' = j + 1 /\ pc' = "inner" /\ ~MergeStep
     /\ (pc = "inner" /\ bailoutfunc = "None" /\ pc' # "inner") =>
          j = Len(triggers)]_vars

C16_Witness ==
  /\ pc = "inner"
  /\ bailoutfunc = "None"
  /\ passes = 1
  /\ merges = 2
  /\ last.op = "merge"
  /\ last.i = 0
  /\ last.j = 1
  /\ last.a.snr > last.b.snr

\* C17: with a bailout predicate, a pair (i, j) that testfunc finds to
\* cluster is merged without the predicate being consulted; for a pair
\* found distinct, a true predicate ends the inner loop for this i (no
\* pair (i, k) with k > j is tested, the scan goes on with i + 1) and a
\* false predicate moves the scan to j + 1; neither changes the list.
C17_BailoutStep ==
  [][(pc = "inner" /\ bailoutfunc # "None" /\ j < Len(triggers)) =>
       IF testfunc(At(triggers, i), At(triggers, j), twindow) = 0
       THEN MergeStep
       ELSE IF bailoutfunc_true(bailoutfunc, At(triggers, i),
                                At(triggers, j), twindow)
            THEN /\ i' = i + 1
                 /\ pc' = "outer"
                 /\ triggers' = triggers
                 /\ merges' = merges
            ELSE /\ i' = i
                 /\ j' = j + 1
                 /\ pc' = "inner"
                 /\ triggers' = triggers
                 /\ merges' = merges]_vars

C17_Witness ==
  /\ pc = "outer"
  /\ bailoutfunc # "None"
  /\ last.op = "bail"
  /\ i = last.i + 1
  /\ last.j > last.i + 1

\* C18: at the end of a full pass (i has reached the end of the list) the
\* engine goes back to the start of a pass when did_cluster is set, and
\* returns otherwise, from nowhere else; the start of a pass clears
\* did_cluster and sets i to 0, after the sort when a bailout predicate is
\* supplied; every merge step sets did_cluster and only the start of a
\* pass clears it, so the pass at whose end the engine returns has merged
\* nothing.
C18_PassControl ==
  /\ [][/\ pc = "check" =>
             IF did_cluster THEN pc' = "pass" ELSE pc' = "return"
        /\ pc = "pass" =>
             /\ pc' = "outer"
             /\ i' = 0
             /\ ~did_cluster'
             /\ passes' = passes + 1
             /\ merges' = merges
             /\ bailoutfunc # "None" => TimeSorted(triggers')
        /\ (Running /\ pc' = "return") => pc = "check"
        /\ (Running /\ pc' = "check") =>
             (pc = "outer" /\ i >= Len(triggers))
        /\ MergeStep => did_cluster'
        /\ (Running /\ did_cluster /\ ~did_cluster') => pc = "pass"]_vars
  /\ [](pc = "return" => ~did_cluster)

C18_Witness ==
  /\ pc = "return"
  /\ call = 1
  /\ bailoutfunc = "None"
  /\ passes = 3
  /\ ~did_cluster
  /\ Len(triggers) = 1

\* This step executes the body of the inner loop: it reads triggers[i] and
\* triggers[j] (and, when it merges, writes triggers[i] and deletes
\* triggers[j]).
BodyStep == pc = "inner" /\ last' # last

\* C19: whenever the engine is in the inner loop 0 <= i < j <= len holds,
\* and every step that reads triggers[i] and triggers[j], replaces
\* triggers[i] or deletes triggers[j] starts with 0 <= i < j < len for the
\* length of the list at that moment; on an input of length 0 or 1 the body
\* of the inner loop is never executed and the list stays as passed.
C19_IndexSafety ==
  /\ [](pc = "inner" => (0 <= i /\ i < j /\ j <= Len(triggers)))
  /\ [](pc = "outer" => (0 <= i /\ i <= Len(triggers)))
  /\ [][BodyStep => (0 <= i /\ i < j /\ j < Len(triggers))]_vars
  /\ []((InCall /\ call = 1 /\ Len(input) <= 1)
          => (last = NoLast /\ merges = 0 /\ triggers = input))

C19_Witness ==
  /\ pc = "inner"
  /\ last.op = "merge"
  /\ merges = 1
  /\ i = 1
  /\ j = 2
  /\ Len(triggers) = 2

\* The highest score of a non-empty list.
MaxSnrOf(s) ==
  CHOOSE v \in {s[k].snr : k \in DOMAIN s} :
    \A k \in DOMAIN s : s[k].snr <= v

\* C20: throughout a call of the engine (and a second call on its result)
\* the list holds only triggers of the original input, none of them twice,
\* it is not empty unless the input was, and a trigger with the highest
\* score of the input is in it.
C20_OnlyInputTriggersMaxKept ==
  InCall =>
    /\ Rows(triggers) \subseteq Rows(input)
    /\ Cardinality(Rows(triggers)) = Len(triggers)
    /\ input # <<>> =>
         /\ triggers # <<>>
         /\ \E k \in DOMAIN triggers : triggers[k].snr = MaxSnrOf(input)

C20_Witness ==
  /\ pc = "return"
  /\ call = 2
  /\ Len(input) = 3
  /\ Len(triggers) = 2
  /\ \E k \in DOMAIN triggers : triggers[k].snr = MaxSnrOf(input)
  /\ \E k \in DOMAIN triggers : triggers[k].snr < MaxSnrOf(input)
====
